---- MODULE Spec2Model ----
(***************************************************************************)
(* Model of SortiFile's DocumentClassifier (src/document_classifier.py).   *)
(*                                                                         *)
(* One DocumentClassifier object (self) serves a sequence of               *)
(* classify_document calls.  A call is modelled stage by stage: the frame  *)
(* of the call holds the Python locals bound so far, pc is the position in *)
(* the body of classify_document.                                          *)
(*                                                                         *)
(* Numbers.  Python floats are modelled exactly:                            *)
(*   - a normalized coordinate is the fraction [num, den] in lowest terms, *)
(*   - a probability is a whole number of tenths (One = 1.0, Boost = 0.1). *)
(* The external engines (PIL, tesseract, OpenCV, the LayoutLM model) are   *)
(* not part of the repository: what they answer for a file is part of the  *)
(* document record the call is made on.                                    *)
(***************************************************************************)
EXTENDS Integers, Sequences, FiniteSets, TLC

VARIABLES self,       \* the DocumentClassifier object: tokenizer, model, transforms
          pc,         \* position inside classify_document, "idle" between calls
          frame,      \* locals of the running call (a function name -> value)
          result,     \* what the last call handed to its caller
          invoked,    \* how often each stage was entered during the last call
          observed    \* results seen so far for the documents the tests re-classify

\* the desktop application (src/GUI_Application.py) and the files it writes
VARIABLES running,      \* a ModernDocumentClassifierGUI is up and in its mainloop
          file_path,    \* self.file_path, the selected file
          status_var,   \* self.status_var, the status bar, a list of string pieces
          alert,        \* the message box the last handler showed, if any
          history_tree, \* self.history_tree, newest row first
          display,      \* self.result_text and self.json_text
          disk,         \* classification_results/: json, text and the CSV log
          clock,        \* datetime.now(), in seconds
          results,      \* the local results of the last classify_and_save
          saves,        \* the CSV rows of the save_results calls that returned, in order
          event         \* the last classification asked for: what the outside answered

classifier_vars == <<self, pc, frame, result, invoked, observed>>

gui_vars == <<running, file_path, status_var, alert, history_tree, display, disk,
              clock, results, saves, event>>

vars == <<self, pc, frame, result, invoked, observed,
          running, file_path, status_var, alert, history_tree, display, disk,
          clock, results, saves, event>>

-----------------------------------------------------------------------------
(* Bounds and program constants *)

\* tokenizer max_length: input_ids always has this many positions
\* (padding='max_length', truncation=True); 512 in the source, scaled down here
max_length == 2

\* the longest OCR box list tried: one more than the token length, so N > L happens
MaxBoxes == max_length + 1

\* minimum contour area of a logo candidate (pixels^2)
MinArea == 1000

\* the logo boost 0.1, in tenths
Boost == 1

\* the probability 1.0, in tenths
One == 10 * Boost

-----------------------------------------------------------------------------
(* Python values *)

\* Python's None
None == [type |-> "NoneType"]

\* the caller has not been handed anything yet
Pending == [type |-> "pending"]

\* a frame with no local bound
EmptyFrame == <<>>

Stages == {"preprocess_image", "detect_logo", "model"}

NoStage == [s \in Stages |-> 0]

-----------------------------------------------------------------------------
(* get_document_types *)

get_document_types == [i \in 0..4 |->
    CASE i = 0 -> "Invoice"
      [] i = 1 -> "Resume"
      [] i = 2 -> "Contract"
      [] i = 3 -> "ID Card"
      [] i = 4 -> "Bank Statement"]

-----------------------------------------------------------------------------
(* Exact arithmetic for the float expressions of preprocess_image *)

RECURSIVE GCD(_, _)
GCD(a, b) == IF b = 0 THEN a ELSE GCD(b, a % b)

\* the value n/d (d > 0, n >= 0) in lowest terms
Frac(n, d) == LET g == GCD(n, d) IN [num |-> n \div g, den |-> d \div g]

\* p <= q for two fractions
FracLeq(p, q) == p.num * q.den <= q.num * p.den

Min(a, b) == IF a <= b THEN a ELSE b

-----------------------------------------------------------------------------
(* Documents: a file and what the external engines answer for it *)

\* tesseract box lines "c x1 y1 x2 y2 page" of an image of the given size:
\* left, bottom, right, top in pixels, origin at the bottom-left corner
BoxesOf(size) == {<<x1, y1, x2, y2>> : x1 \in 0..size[1], y1 \in 0..size[2],
                                       x2 \in 0..size[1], y2 \in 0..size[2]}

OcrBoxes(size) == {b \in BoxesOf(size) : b[1] <= b[3] /\ b[2] <= b[4]}

Sizes == {<<1, 2>>, <<2, 1>>, <<3, 3>>}

\* images on which OCR recognises exactly one box
OneBoxLayouts == UNION {{[size |-> s, boxes |-> <<b>>] : b \in OcrBoxes(s)} : s \in Sizes}

\* images on which OCR recognises 0..MaxBoxes boxes
BoxPool == {<<0, 0, 3, 3>>, <<1, 0, 2, 1>>}

ManyBoxLayouts == UNION {{[size |-> <<3, 3>>, boxes |-> bs] : bs \in [1..n -> BoxPool]} : n \in 0..MaxBoxes}

Layouts == OneBoxLayouts \cup ManyBoxLayouts

\* external contours of the inverse-thresholded image: contourArea and boundingRect
Contour(area, w, h) == [area |-> area, w |-> w, h |-> h]

ContourPool == {Contour(a, wh[1], wh[2]) :
                  a \in {MinArea - 1, MinArea, MinArea + 1},
                  wh \in {<<40, 40>>, <<40, 80>>, <<40, 81>>, <<80, 40>>, <<81, 40>>}}

\* a glyph of the text, and the 100x100 logo box the tests draw
Glyph == Contour(60, 12, 16)

TestLogo == Contour(10000, 101, 101)

ContourLists == {<<>>, <<Glyph>>, <<TestLogo>>, <<Glyph, TestLogo>>}
                \cup {<<c>> : c \in ContourPool}
                \cup {<<Glyph, c>> : c \in ContourPool}

\* softmax outputs over the five labels, in tenths
TwoPeak(k, p) == [i \in 0..4 |-> IF i = k THEN p
                                 ELSE IF i = (k + 1) % 5 THEN One - p ELSE 0]

Uniform == [i \in 0..4 |-> One \div 5]

Spread(k) == [i \in 0..4 |-> IF i = k THEN 4
                             ELSE IF i \in {(k + 1) % 5, (k + 2) % 5} THEN 3 ELSE 0]

Distributions == {TwoPeak(k, p) : k \in 0..4, p \in 5..One}
                 \cup {Spread(k) : k \in 0..4} \cup {Uniform}

Doc(layout, contours, probs) ==
    [exists |-> TRUE, size |-> layout.size, ocr_ok |-> TRUE, boxes |-> layout.boxes,
     cv_ok |-> TRUE, contours |-> contours, model_ok |-> TRUE, probs |-> probs]

\* the sample documents of test_document_classifier.py
invoice_sample == Doc([size |-> <<3, 3>>, boxes |-> <<<<1, 0, 2, 1>>>>],
                      <<Glyph, TestLogo>>, TwoPeak(0, 9))

resume_sample == Doc([size |-> <<3, 3>>, boxes |-> <<<<1, 0, 2, 1>>>>],
                     <<Glyph>>, TwoPeak(1, 6))

TestDocs == {invoice_sample, resume_sample}

LayoutDocs == {Doc(l, c, TwoPeak(0, 9)) : l \in Layouts, c \in {<<Glyph>>, <<Glyph, TestLogo>>}}

FusionDocs == {Doc([size |-> <<3, 3>>, boxes |-> <<>>], c, p) :
                 c \in ContourLists, p \in Distributions}

\* files on which one or more engines raise
FailingDocs == {[d EXCEPT !.exists = e, !.ocr_ok = o, !.cv_ok = c, !.model_ok = m] :
                  d \in TestDocs, e \in BOOLEAN, o \in BOOLEAN, c \in BOOLEAN, m \in BOOLEAN}

Documents == LayoutDocs \cup FusionDocs \cup FailingDocs \cup TestDocs

-----------------------------------------------------------------------------
(* preprocess_image *)

\* Image.open / pytesseract raise
preprocess_raises(doc) == ~doc.exists \/ ~doc.ocr_ok

\* the padding rectangle [0, 0, 0, 0] as the float tensor holds it
ZeroBox == <<Frac(0, 1), Frac(0, 1), Frac(0, 1), Frac(0, 1)>>

\* normalize_box without the vertical flip
normalize_box_no_flip(b, width, height) ==
    <<Frac(b[1] * 1000, width),
      Frac(b[2] * 1000, height),
      Frac(b[3] * 1000, width),
      Frac(b[4] * 1000, height)>>

\* one iteration of the loop over boxes.splitlines()
normalize_box(b, width, height) ==
    <<Frac(b[1] * 1000, width),
      Frac((height - b[2]) * 1000, height),
      Frac(b[3] * 1000, width),
      Frac((height - b[4]) * 1000, height)>>

\* match_length without the truncation branch
match_length_no_truncate(normalized_boxes, input_length) ==
    LET num_boxes == Len(normalized_boxes) IN
    IF num_boxes < input_length
    THEN normalized_boxes \o [i \in 1..(input_length - num_boxes) |-> ZeroBox]
    ELSE normalized_boxes

\* match_length with the padding put in front of the boxes
match_length_pad_front(normalized_boxes, input_length) ==
    LET num_boxes == Len(normalized_boxes) IN
    IF num_boxes < input_length
    THEN [i \in 1..(input_length - num_boxes) |-> ZeroBox] \o normalized_boxes
    ELSE IF num_boxes > input_length
    THEN SubSeq(normalized_boxes, 1, input_length)
    ELSE normalized_boxes

\* "Ensure bbox tensor is same length as tokenized input"
match_length(normalized_boxes, input_length) ==
    LET num_boxes == Len(normalized_boxes) IN
    IF num_boxes < input_length
    THEN normalized_boxes \o [i \in 1..(input_length - num_boxes) |-> ZeroBox]
    ELSE IF num_boxes > input_length
    THEN SubSeq(normalized_boxes, 1, input_length)
    ELSE normalized_boxes

\* the tokenizer pads and truncates the text to max_length positions
tokenizer(doc) == [input_ids |-> max_length]

preprocess_image(doc) ==
    LET width == doc.size[1]
        height == doc.size[2]
        normalized_boxes == [i \in 1..Len(doc.boxes) |->
                                normalize_box(doc.boxes[i], width, height)]
        encoding == tokenizer(doc)
        input_length == encoding.input_ids
    IN  [input_ids |-> encoding.input_ids,
         bbox |-> match_length(normalized_boxes, input_length)]

-----------------------------------------------------------------------------
(* detect_logo *)

\* cv2.imread returns None and cvtColor raises
detect_logo_raises(doc) == ~doc.cv_ok

\* is_potential_logo with the aspect ratio taken by integer division, w // h
is_potential_logo_int_ratio(contour) ==
    /\ contour.area > MinArea
    /\ 1 <= 2 * (contour.w \div contour.h)
    /\ (contour.w \div contour.h) <= 2

\* is_potential_logo accepting a contour whose area is exactly the minimum
is_potential_logo_area_geq(contour) ==
    /\ contour.area >= MinArea
    /\ contour.h <= 2 * contour.w
    /\ contour.w <= 2 * contour.h

\* the filter on one contour: area, then aspect ratio float(w) / h in [0.5, 2.0]
is_potential_logo(contour) ==
    /\ contour.area > MinArea
    /\ contour.h <= 2 * contour.w
    /\ contour.w <= 2 * contour.h

detect_logo(doc) ==
    LET potential_logos == SelectSeq(doc.contours, is_potential_logo)
    IN  Len(potential_logos) > 0

-----------------------------------------------------------------------------
(* model inference and fusion *)

model_raises(doc) == ~doc.model_ok

\* predictions.max()
max(predictions) ==
    CHOOSE m \in {predictions[i] : i \in DOMAIN predictions} :
        \A i \in DOMAIN predictions : predictions[i] <= m

\* argmax taken along the batch axis: index 0 whatever the probabilities
argmax_batch_axis(predictions) == 0

\* predictions.argmax(): the first index holding the maximum
argmax(predictions) ==
    CHOOSE k \in DOMAIN predictions :
        /\ predictions[k] = max(predictions)
        /\ \A j \in DOMAIN predictions : predictions[j] = max(predictions) => k <= j

\* adjust without the test on the predicted class
adjust_any_label(confidence, has_logo, predicted_class) ==
    IF has_logo
    THEN confidence + Boost
    ELSE confidence

\* adjust with a boost of 0.2
adjust_large_boost(confidence, has_logo, predicted_class) ==
    IF has_logo /\ predicted_class \in {0, 2}
    THEN confidence + 2 * Boost
    ELSE confidence

\* "Adjust prediction based on logo presence"
adjust(confidence, has_logo, predicted_class) ==
    IF has_logo /\ predicted_class \in {0, 2}
    THEN confidence + Boost
    ELSE confidence

\* the dict classify_document returns
fused_result(predictions, has_logo) ==
    LET predicted_class == argmax(predictions)
        confidence == max(predictions)
    IN  [document_type |-> get_document_types[predicted_class],
         confidence |-> adjust(confidence, has_logo, predicted_class),
         has_logo |-> has_logo]

-----------------------------------------------------------------------------
(* The desktop application: values *)

\* the most CSV rows a run of the model writes
MaxSaves == 2

\* the last second the clock reaches
MaxClock == 1

\* a path as pathlib splits it; EmptyPath is the empty string of a fresh StringVar
EmptyPath == [dir |-> "", stem |-> "", ext |-> ""]

Paths == {[dir |-> "/docs", stem |-> "invoice", ext |-> ".png"]}

\* Path(image_path).name / os.path.basename(image_path)
basename(path) == <<path.stem, path.ext>>

\* self.model_var, left at its default
model_var == "x/llama3.2-vision:latest"

\* results is not bound (no call of classify_document in the last handler)
NoResults == [unbound |-> TRUE]

NoAlert == <<>>

\* the header row setup_directories writes
Header == <<"Timestamp", "Filename", "Document Type", "Confidence", "Path">>

EmptyDisk == [dirs |-> FALSE, json |-> <<>>, text |-> <<>>,
              log_exists |-> FALSE, log |-> <<>>]

\* the "response" strings the endpoint may send, and what eval makes of each
Responses == {"{\"category\": \"Invoice\"}",
              "{\"type\": \"Invoice\"}", "[1, 2]", "{\"category\": true}",
              "{\"category\":", "exit()"}

\* eval(output_json): a dict (with or without "category"), another value, or
\* an exception; SystemExit is a BaseException but not an Exception
eval(output_json) ==
    CASE output_json = "{\"category\": \"Invoice\"}" ->
            [outcome |-> "dict", category |-> <<"Invoice">>, message |-> ""]
      [] output_json = "{\"type\": \"Invoice\"}" ->
            [outcome |-> "dict", category |-> <<>>, message |-> ""]
      [] output_json = "[1, 2]" ->
            [outcome |-> "list", category |-> <<>>, message |-> ""]
      [] output_json = "{\"category\": true}" ->
            [outcome |-> "NameError", category |-> <<>>,
             message |-> "name 'true' is not defined"]
      [] output_json = "{\"category\":" ->
            [outcome |-> "SyntaxError", category |-> <<>>,
             message |-> "'{' was never closed"]
      [] output_json = "exit()" ->
            [outcome |-> "SystemExit", category |-> <<>>, message |-> ""]

\* what the outside answers one classify_document call: whether the file can
\* be read, how the POST ends, and the fields of the JSON body
Answer(file_ok, http, done, response) ==
    [file_ok |-> file_ok, http |-> http, done |-> done, response |-> response]

NoAnswer == Answer(TRUE, "", "", "")

Answers ==
    {Answer(FALSE, "ok", "true", "{\"category\": \"Invoice\"}"),
     Answer(TRUE, "ConnectionError", "missing", "missing"),
     Answer(TRUE, "JSONDecodeError", "missing", "missing")}
    \cup {Answer(TRUE, "ok", "true", r) : r \in Responses \cup {"missing", ""}}
    \cup {Answer(TRUE, "ok", d, "{\"category\": \"Invoice\"}") : d \in {"false", "missing"}}

\* where an I/O error strikes save_results / update_display, if anywhere
IoFailures == {"none", "json", "text", "csv", "display"}

Event(handler, answer, io) == [handler |-> handler, answer |-> answer, io |-> io]

-----------------------------------------------------------------------------
(* The desktop application: classify_document, save_results, update_display *)

\* {"error": str(e)}
error_result(message) == [error |-> message]

\* the call left by an exception the handlers do not catch
raised_result(exception) == [raised |-> exception]

\* classify_document(image_path): the dict it returns, or the exception that
\* passes its "except Exception"
classify_document(image_path, answer, now) ==
    IF ~answer.file_ok
    THEN error_result(<<"[Errno 2] No such file or directory">>)
    ELSE IF answer.http = "ConnectionError"
    THEN error_result(<<"Connection refused">>)
    ELSE IF answer.http = "JSONDecodeError"
    THEN error_result(<<"Expecting value">>)
    ELSE IF answer.done = "true" /\ answer.response \notin {"missing", ""}
    THEN LET r == eval(answer.response) IN
         IF r.outcome = "dict"
         THEN [category |-> IF r.category = <<>> THEN "Unknown" ELSE r.category[1],
               confidence |-> 95,
               details |-> [processed_time |-> now,
                            model_version |-> model_var,
                            file_info |-> [name |-> basename(image_path),
                                           path |-> image_path]]]
         ELSE IF r.outcome = "SyntaxError"
         THEN error_result(<<"Error parsing API response: ", r.message>>)
         ELSE IF r.outcome = "list"
         THEN error_result(<<"'list' object has no attribute 'get'">>)
         ELSE IF r.outcome = "SystemExit"
         THEN raised_result("SystemExit")
         ELSE error_result(<<r.message>>)
    ELSE error_result(<<"Classification failed">>)

\* f"{timestamp}_{Path(image_path).stem}"
filename_base(now, image_path) == <<now, image_path.stem>>

\* the row save_results appends to the CSV log
csv_row(res, image_path, now) ==
    <<now, basename(image_path), res.category, res.confidence, image_path>>

\* the text summary save_results writes
text_summary(res, image_path, now) ==
    [timestamp |-> now, document_type |-> res.category,
     confidence |-> res.confidence, file |-> basename(image_path), path |-> image_path]

\* the files after save_results ran up to the point where io strikes:
\* JSON file, then text file, then the appended CSV row
save_results(d, res, image_path, now, io) ==
    LET base == filename_base(now, image_path)
        json_done == io # "json"
        text_done == io \notin {"json", "text"}
        csv_done == io \notin {"json", "text", "csv"}
    IN  [d EXCEPT
           !.json = IF json_done THEN (base :> res) @@ @ ELSE @,
           !.text = IF text_done THEN (base :> text_summary(res, image_path, now)) @@ @
                    ELSE @,
           !.log_exists = @ \/ csv_done,
           !.log = IF csv_done THEN Append(@, csv_row(res, image_path, now)) ELSE @]

\* save_results returned its two paths
save_returns(io) == io \notin {"json", "text", "csv"}

\* setup_directories rewriting the log header at every start-up
setup_directories_rewrite(d) ==
    [d EXCEPT !.dirs = TRUE, !.log_exists = TRUE, !.log = <<Header>>]

\* setup_directories: mkdir(exist_ok=True), header only for a new log file
setup_directories(d) ==
    [d EXCEPT !.dirs = TRUE,
              !.log_exists = TRUE,
              !.log = IF d.log_exists THEN @ ELSE <<Header>>]

-----------------------------------------------------------------------------
(* The desktop application: start-up and handlers *)

InitGUI ==
    /\ running = FALSE
    /\ file_path = EmptyPath
    /\ status_var = <<>>
    /\ alert = NoAlert
    /\ history_tree = <<>>
    /\ display = [result_text |-> <<>>, json_text |-> <<>>]
    /\ disk = EmptyDisk
    /\ clock = 0
    /\ results = NoResults
    /\ saves = <<>>
    /\ event = Event("", NoAnswer, "none")

\* main(): ModernDocumentClassifierGUI(root), then root.mainloop()
Startup ==
    /\ ~running
    /\ running' = TRUE
    /\ disk' = setup_directories(disk)
    /\ file_path' = EmptyPath
    /\ status_var' = <<>>
    /\ alert' = NoAlert
    /\ history_tree' = <<>>
    /\ display' = [result_text |-> <<>>, json_text |-> <<>>]
    /\ results' = NoResults
    /\ event' = Event("", NoAnswer, "none")
    /\ UNCHANGED <<clock, saves>>
    /\ UNCHANGED classifier_vars

\* the user closes the window: the process ends, the files stay
Quit ==
    /\ running
    /\ running' = FALSE
    /\ file_path' = EmptyPath
    /\ status_var' = <<>>
    /\ alert' = NoAlert
    /\ history_tree' = <<>>
    /\ display' = [result_text |-> <<>>, json_text |-> <<>>]
    /\ results' = NoResults
    /\ event' = Event("", NoAnswer, "none")
    /\ UNCHANGED <<disk, clock, saves>>
    /\ UNCHANGED classifier_vars

\* time passes
Tick ==
    /\ clock < MaxClock
    /\ clock' = clock + 1
    /\ UNCHANGED <<running, file_path, status_var, alert, history_tree, display,
                   disk, results, saves, event>>
    /\ UNCHANGED classifier_vars

\* browse_file: the dialog returns a file name, or "" when cancelled
browse_file(filename) ==
    /\ running
    /\ file_path' = IF filename # EmptyPath THEN filename ELSE file_path
    /\ UNCHANGED <<running, status_var, alert, history_tree, display, disk,
                   clock, results, saves, event>>
    /\ UNCHANGED classifier_vars

\* classify_and_save: the whole handler of the "Classify Document" button
classify_and_save(answer, io) ==
    /\ running
    /\ Len(saves) < MaxSaves
    /\ event' = IF file_path = EmptyPath
                THEN Event("", NoAnswer, "none")
                ELSE Event("classify_and_save", answer, io)
    /\ UNCHANGED <<file_path, clock>>
    /\ UNCHANGED classifier_vars
    /\ IF file_path = EmptyPath
       THEN /\ answer = NoAnswer /\ io = "none"
            /\ alert' = <<"warning", "Please select a file first">>
            /\ results' = NoResults
            /\ UNCHANGED <<running, status_var, history_tree, display, disk, saves>>
       ELSE
       LET res == classify_document(file_path, answer, clock) IN
       /\ results' = res
       /\ "category" \notin DOMAIN res => io = "none"
       /\ IF "raised" \in DOMAIN res
          THEN \* the exception leaves the handler and ends the mainloop
               /\ running' = FALSE
               /\ status_var' = <<"Processing...">>
               /\ alert' = NoAlert
               /\ UNCHANGED <<history_tree, display, disk, saves>>
          ELSE IF "error" \in DOMAIN res
          THEN /\ status_var' = <<"Error: ">> \o res.error
               /\ alert' = <<"error", "Classification failed: ">> \o res.error
               /\ UNCHANGED <<running, history_tree, display, disk, saves>>
          ELSE
          /\ disk' = save_results(disk, res, file_path, clock, io)
          /\ saves' = IF save_returns(io)
                      THEN Append(saves, csv_row(res, file_path, clock))
                      ELSE saves
          /\ IF io = "none"
             THEN /\ display' = [result_text |->
                                    <<disk'.text[filename_base(clock, file_path)]>>,
                                 json_text |-> <<res>>]
                  /\ history_tree' =
                        <<<<clock, res.category, basename(res.details.file_info.path)>>>>
                        \o history_tree
                  /\ status_var' = <<"Results saved successfully">>
                  /\ alert' = NoAlert
             ELSE /\ status_var' = <<"Error: ", "[Errno 5] Input/output error">>
                  /\ alert' = <<"error", "Classification failed: ",
                                "[Errno 5] Input/output error">>
                  /\ UNCHANGED <<history_tree, display>>
          /\ UNCHANGED running

NextGUI ==
    \/ Startup
    \/ Quit
    \/ Tick
    \/ \E filename \in Paths \cup {EmptyPath} : browse_file(filename)
    \/ \E answer \in Answers \cup {NoAnswer}, io \in IoFailures :
          classify_and_save(answer, io)

-----------------------------------------------------------------------------
(* The classifier object and the calls made on it *)

\* __init__: tokenizer and model loaded once
NewClassifier ==
    [tokenizer |-> "microsoft/layoutlm-base-uncased",
     model |-> [name |-> "microsoft/layoutlm-base-uncased",
                num_labels |-> Cardinality(DOMAIN get_document_types)],
     image_transforms |-> <<"Resize", "ToTensor", "Normalize">>]

Init ==
    /\ self = NewClassifier
    /\ pc = "idle"
    /\ frame = EmptyFrame
    /\ result = Pending
    /\ invoked = NoStage
    /\ observed = [d \in TestDocs |-> <<>>]
    /\ InitGUI

\* the tests classify the same sample files again and again on one classifier:
\* per sample file, the first result and the latest later one
Observe(r) ==
    IF frame.image_path \in DOMAIN observed
    THEN [observed EXCEPT ![frame.image_path] = IF @ = <<>> THEN <<r>> ELSE <<@[1], r>>]
    ELSE observed

\* the caller invokes classify_document(image_path)
Call(doc) ==
    /\ pc = "idle"
    /\ pc' = "preprocess_image"
    /\ frame' = [image_path |-> doc]
    /\ result' = Pending
    /\ invoked' = NoStage
    /\ UNCHANGED <<self, observed>>
    /\ UNCHANGED gui_vars

\* Preprocess going on to logo detection although preprocess_image raised
Preprocess_swallow ==
    /\ pc = "preprocess_image"
    /\ invoked' = [invoked EXCEPT !["preprocess_image"] = @ + 1]
    /\ pc' = "detect_logo"
    /\ IF preprocess_raises(frame.image_path)
       THEN frame' = frame
       ELSE frame' = frame @@ [encoding |-> preprocess_image(frame.image_path)]
    /\ UNCHANGED <<self, result, observed>>
    /\ UNCHANGED gui_vars

\* encoding = self.preprocess_image(image_path)
Preprocess ==
    /\ pc = "preprocess_image"
    /\ invoked' = [invoked EXCEPT !["preprocess_image"] = @ + 1]
    /\ IF preprocess_raises(frame.image_path)
       THEN pc' = "except" /\ frame' = frame
       ELSE /\ pc' = "detect_logo"
            /\ frame' = frame @@ [encoding |-> preprocess_image(frame.image_path)]
    /\ UNCHANGED <<self, result, observed>>
    /\ UNCHANGED gui_vars

\* has_logo = self.detect_logo(image_path)
DetectLogo ==
    /\ pc = "detect_logo"
    /\ invoked' = [invoked EXCEPT !["detect_logo"] = @ + 1]
    /\ IF detect_logo_raises(frame.image_path)
       THEN pc' = "except" /\ frame' = frame
       ELSE /\ pc' = "model"
            /\ frame' = frame @@ [has_logo |-> detect_logo(frame.image_path)]
    /\ UNCHANGED <<self, result, observed>>
    /\ UNCHANGED gui_vars

\* predictions = self.model(**encoding).logits.softmax(dim=1)
Inference ==
    /\ pc = "model"
    /\ invoked' = [invoked EXCEPT !["model"] = @ + 1]
    /\ IF model_raises(frame.image_path)
       THEN pc' = "except" /\ frame' = frame
       ELSE /\ pc' = "fusion"
            /\ frame' = frame @@ [predictions |-> frame.image_path.probs]
    /\ UNCHANGED <<self, result, observed>>
    /\ UNCHANGED gui_vars

\* Fuse leaving the locals of the call behind
Fuse_keeps_frame ==
    /\ pc = "fusion"
    /\ result' = fused_result(frame.predictions, frame.has_logo)
    /\ observed' = Observe(result')
    /\ pc' = "idle"
    /\ frame' = frame
    /\ UNCHANGED <<self, invoked>>
    /\ UNCHANGED gui_vars

\* arg-max, boost and return of the result dict
Fuse ==
    /\ pc = "fusion"
    /\ result' = fused_result(frame.predictions, frame.has_logo)
    /\ observed' = Observe(result')
    /\ pc' = "idle"
    /\ frame' = EmptyFrame
    /\ UNCHANGED <<self, invoked>>
    /\ UNCHANGED gui_vars

\* Except letting the exception through to the caller
Except_reraise ==
    /\ pc = "except"
    /\ result' = [type |-> "raised"]
    /\ observed' = Observe(result')
    /\ pc' = "idle"
    /\ frame' = EmptyFrame
    /\ UNCHANGED <<self, invoked>>
    /\ UNCHANGED gui_vars

\* Except running the pipeline a second time before giving up
Except_retry ==
    /\ pc = "except"
    /\ IF invoked["preprocess_image"] < 2
       THEN /\ pc' = "preprocess_image"
            /\ frame' = [image_path |-> frame.image_path]
            /\ UNCHANGED <<result, observed>>
       ELSE /\ result' = None
            /\ observed' = Observe(result')
            /\ pc' = "idle"
            /\ frame' = EmptyFrame
    /\ UNCHANGED <<self, invoked>>
    /\ UNCHANGED gui_vars

\* except Exception: print and return None
Except ==
    /\ pc = "except"
    /\ result' = None
    /\ observed' = Observe(result')
    /\ pc' = "idle"
    /\ frame' = EmptyFrame
    /\ UNCHANGED <<self, invoked>>
    /\ UNCHANGED gui_vars

Next ==
    \/ \E doc \in Documents : Call(doc)
    \/ Preprocess
    \/ DetectLogo
    \/ Inference
    \/ Fuse
    \/ Except

Spec == Init /\ [][Next]_vars

\* the desktop application on its own
SpecGUI == Init /\ [][NextGUI]_vars

-----------------------------------------------------------------------------
(* Properties *)

Bound(name) == name \in DOMAIN frame

IsDict(r) == DOMAIN r = {"document_type", "confidence", "has_logo"}

Boosted == {"Invoice", "Contract"}

\* C1: whenever preprocess_image has returned, the box list attached to the
\* encoding has exactly as many entries as the tokenized input has positions
\* (max_length), whatever the number of OCR boxes.
C1_BoxListLength ==
    Bound("encoding") =>
        /\ Len(frame.encoding.bbox) = frame.encoding.input_ids
        /\ Len(frame.encoding.bbox) = max_length

\* more OCR boxes than token positions, and the encoding was produced
C1_Witness ==
    /\ Bound("encoding")
    /\ Len(frame.image_path.boxes) > frame.encoding.input_ids
    /\ Len(frame.encoding.bbox) = max_length

\* C2: the fusion step returns confidence c + 0.1 when has_logo holds and the
\* predicted label is Invoice or Contract, c otherwise; the label of the
\* predicted class and the logo signal are returned as they are.
C2_FusionRule ==
    [][pc = "fusion" =>
        LET c == max(frame.predictions)
            label == get_document_types[argmax(frame.predictions)]
        IN  /\ result'.document_type = label
            /\ result'.has_logo = frame.has_logo
            /\ (frame.has_logo /\ label \in Boosted => result'.confidence = c + Boost)
            /\ (~frame.has_logo \/ label \notin Boosted => result'.confidence = c)]_vars

\* a Resume with a logo came back with its raw confidence 0.6
C2_Witness ==
    /\ pc = "idle"
    /\ IsDict(result)
    /\ result.document_type = "Resume"
    /\ result.has_logo
    /\ result.confidence = 6

\* C3: a call on which any stage raises returns None, and whatever a call
\* returns is None or a dict with all of document_type, confidence, has_logo.
C3_FailureIsNone ==
    [][pc # "idle" /\ pc' = "idle" =>
        LET doc == frame.image_path
            fails == ~doc.exists \/ ~doc.ocr_ok \/ ~doc.cv_ok \/ ~doc.model_ok
        IN  /\ fails => result' = None
            /\ result' = None \/ IsDict(result')]_vars

\* model inference raised after the two earlier stages succeeded: None
C3_Witness ==
    /\ pc = "idle"
    /\ result = None
    /\ invoked["model"] = 1

\* C4: probabilities are in [0, 1]; a returned confidence is in [0, 1.1], it
\* is above 1.0 only for a boosted label with a logo, and it is not clamped.
C4_ConfidenceRange ==
    /\ Bound("predictions") =>
          \A i \in DOMAIN frame.predictions :
              0 <= frame.predictions[i] /\ frame.predictions[i] <= One
    /\ IsDict(result) =>
          /\ 0 <= result.confidence
          /\ result.confidence <= One + Boost
          /\ result.confidence > One => result.has_logo /\ result.document_type \in Boosted

\* raw confidence 1.0 boosted to 1.1 and returned unclamped
C4_Witness ==
    /\ IsDict(result)
    /\ result.confidence = One + Boost

\* C5: the returned document_type is one of the five labels, its index is an
\* arg-max of the probabilities, and the confidence before the boost is the
\* probability at that index.
C5_LabelIsArgMax ==
    [][pc = "fusion" =>
        /\ result'.document_type \in
              {"Invoice", "Resume", "Contract", "ID Card", "Bank Statement"}
        /\ \E k \in DOMAIN frame.predictions :
              /\ get_document_types[k] = result'.document_type
              /\ \A j \in DOMAIN frame.predictions :
                    frame.predictions[j] <= frame.predictions[k]
              /\ frame.predictions[k] =
                    result'.confidence -
                      (IF result'.has_logo /\ result'.document_type \in Boosted
                       THEN Boost ELSE 0)]_vars

\* a Bank Statement (index 4) came back
C5_Witness ==
    /\ pc = "idle"
    /\ IsDict(result)
    /\ result.document_type = "Bank Statement"

\* C6: each kept box (x1, y1, x2, y2) of an image of width W and height H is
\* normalized to (x1/W*1000, (H-y1)/H*1000, x2/W*1000, (H-y2)/H*1000); the
\* flip inverts the order of y1 and y2, sends y = 0 to 1000 and y = H to 0.
C6_BoxNormalization ==
    Bound("encoding") =>
        LET doc == frame.image_path
            W == doc.size[1]
            H == doc.size[2]
        IN  \A i \in 1..Min(Len(doc.boxes), max_length) :
              LET b == doc.boxes[i]
                  n == frame.encoding.bbox[i]
              IN  /\ n[1].num * W = b[1] * 1000 * n[1].den
                  /\ n[2].num * H = (H - b[2]) * 1000 * n[2].den
                  /\ n[3].num * W = b[3] * 1000 * n[3].den
                  /\ n[4].num * H = (H - b[4]) * 1000 * n[4].den
                  /\ (b[2] <= b[4] => FracLeq(n[4], n[2]))
                  /\ (b[2] = 0 => n[2] = [num |-> 1000, den |-> 1])
                  /\ (b[4] = H => n[4] = [num |-> 0, den |-> 1])

\* a box spanning the full height, its bottom y = 0 at 1000 and its top y = H at 0
C6_Witness ==
    /\ Bound("encoding")
    /\ Len(frame.image_path.boxes) = 1
    /\ frame.image_path.boxes[1][2] = 0
    /\ frame.image_path.boxes[1][4] = frame.image_path.size[2]
    /\ frame.encoding.bbox[1][2].num = 1000
    /\ frame.encoding.bbox[1][4].num = 0

\* aspect ratio width / height within [0.5, 2.0]
InRatio(c) == 2 * c.w >= c.h /\ c.w <= 2 * c.h

\* the rectangles of area >= 1000 in the ratio range
RectanglesAtLeast(doc) ==
    {i \in DOMAIN doc.contours :
        doc.contours[i].area >= MinArea /\ InRatio(doc.contours[i])}

\* the contours exceeding the area threshold in the ratio range
RectanglesAbove(doc) ==
    {i \in DOMAIN doc.contours :
        doc.contours[i].area > MinArea /\ InRatio(doc.contours[i])}

\* C7 as stated: detect_logo returns true for every image with a single
\* rectangle of area >= 1000 and aspect ratio in [0.5, 2.0], and false for
\* every image with no contour exceeding the thresholds.
C7_AsStated ==
    Bound("has_logo") =>
        LET doc == frame.image_path IN
        /\ Cardinality(RectanglesAtLeast(doc)) = 1 => frame.has_logo
        /\ RectanglesAbove(doc) = {} => ~frame.has_logo

\* C7 (amended): detect_logo returns true for every image with a single
\* rectangle whose contour area is strictly greater than 1000 and whose aspect
\* ratio is in [0.5, 2.0], and false for every image with no contour exceeding
\* the thresholds.
C7_LogoDetected ==
    Bound("has_logo") =>
        LET doc == frame.image_path IN
        /\ Cardinality(RectanglesAbove(doc)) = 1 => frame.has_logo
        /\ RectanglesAbove(doc) = {} => ~frame.has_logo

\* a lone contour of area 1001 and aspect ratio exactly 0.5 was taken as a logo
C7_Witness ==
    /\ Bound("has_logo")
    /\ frame.has_logo
    /\ frame.image_path.contours = <<Contour(MinArea + 1, 40, 80)>>

\* C8: the box list of the encoding is the first min(N, L) normalized boxes in
\* OCR order followed by L - min(N, L) zero rectangles.
C8_BoxListContent ==
    Bound("encoding") =>
        LET doc == frame.image_path
            N == Len(doc.boxes)
            L == frame.encoding.input_ids
            bbox == frame.encoding.bbox
        IN  /\ DOMAIN bbox = 1..L
            /\ \A i \in 1..L :
                  IF i <= Min(N, L)
                  THEN bbox[i] = normalize_box(doc.boxes[i], doc.size[1], doc.size[2])
                  ELSE bbox[i] = ZeroBox
            /\ (N = 0 => bbox = [i \in 1..L |-> ZeroBox])

\* one recognized box, not itself the zero rectangle, followed by padding
C8_Witness ==
    /\ Bound("encoding")
    /\ Len(frame.image_path.boxes) = 1
    /\ frame.encoding.bbox[1] # ZeroBox
    /\ frame.encoding.bbox[max_length] = ZeroBox

\* C9: over any sequence of calls the classifier object is as constructed, no
\* local of a call outlives it, and a sample file classified again gives the
\* result it gave the first time.
C9_Stateless ==
    /\ self = NewClassifier
    /\ pc = "idle" => frame = EmptyFrame
    /\ \A d \in DOMAIN observed :
          Len(observed[d]) = 2 => observed[d][2] = observed[d][1]

\* both sample files were classified at least twice, the last call a failed one
C9_Witness ==
    /\ pc = "idle"
    /\ \A d \in DOMAIN observed : Len(observed[d]) = 2
    /\ result = None

\* C10: no stage is entered more than once in a call, and once a stage has
\* raised the call returns None without entering any stage again.
C10_NoRetry ==
    [][/\ \A s \in Stages : invoked'[s] <= 1
       /\ pc = "except" => pc' = "idle" /\ result' = None /\ invoked' = invoked]_vars

\* logo detection raised: the call ended with None and the model never ran
C10_Witness ==
    /\ pc = "idle"
    /\ result = None
    /\ invoked = [NoStage EXCEPT !["preprocess_image"] = 1, !["detect_logo"] = 1]

\* C11: detect_logo returns true exactly when some external contour has area
\* strictly greater than 1000 and a bounding-rectangle ratio width/height with
\* 0.5 <= ratio <= 2.0; area exactly 1000 or a ratio outside the range never counts.
C11_LogoIff ==
    Bound("has_logo") =>
        LET contours == frame.image_path.contours IN
        frame.has_logo <=>
            \E i \in DOMAIN contours :
                /\ contours[i].area > MinArea
                /\ contours[i].h <= 2 * contours[i].w
                /\ contours[i].w <= 2 * contours[i].h

\* a lone square contour of area exactly 1000 was not taken as a logo
C11_Witness ==
    /\ Bound("has_logo")
    /\ ~frame.has_logo
    /\ frame.image_path.contours = <<Contour(MinArea, 40, 40)>>

\* C14: preprocessing has completed before logo detection starts, logo
\* detection before inference starts, fusion runs after both; when
\* preprocessing raises neither the logo detector nor the model is entered,
\* and when logo detection raises the model is not entered.
C14_StageOrder ==
    /\ pc = "detect_logo" =>
          /\ Bound("encoding")
          /\ invoked = [NoStage EXCEPT !["preprocess_image"] = 1]
    /\ pc = "model" =>
          /\ Bound("encoding") /\ Bound("has_logo")
          /\ invoked = [NoStage EXCEPT !["preprocess_image"] = 1, !["detect_logo"] = 1]
    /\ pc = "fusion" =>
          /\ Bound("encoding") /\ Bound("has_logo") /\ Bound("predictions")
          /\ invoked = [s \in Stages |-> 1]
    /\ pc = "except" /\ preprocess_raises(frame.image_path) =>
          invoked["detect_logo"] = 0 /\ invoked["model"] = 0
    /\ pc = "except" /\ ~preprocess_raises(frame.image_path)
                     /\ detect_logo_raises(frame.image_path) =>
          invoked["model"] = 0

\* preprocessing raised on a file OpenCV cannot read either: no later stage ran
C14_Witness ==
    /\ pc = "except"
    /\ preprocess_raises(frame.image_path)
    /\ detect_logo_raises(frame.image_path)
    /\ invoked = [NoStage EXCEPT !["preprocess_image"] = 1]

-----------------------------------------------------------------------------
(* Properties of the desktop application *)

\* the answer is one the claims count as a classification error: unreadable
\* file, HTTP failure, response not done, missing or empty, or a response
\* string that does not evaluate to a dict
YieldsError(answer) ==
    \/ ~answer.file_ok
    \/ answer.http # "ok"
    \/ answer.done # "true"
    \/ answer.response \in {"missing", ""}
    \/ eval(answer.response).outcome # "dict"

\* C12: when classify_and_save runs with a file selected and the
\* classification yields an error, nothing is written (JSON, text, CSV row),
\* the history is unchanged, the status is an "Error: ..." message and an error
\* alert is shown; the status of the running application is never left at
\* "Processing...".
C12_ErrorPath ==
    [][/\ (/\ event'.handler = "classify_and_save"
           /\ file_path # EmptyPath
           /\ YieldsError(event'.answer))
          => /\ disk' = disk
             /\ history_tree' = history_tree
             /\ status_var' # <<>> /\ status_var'[1] = "Error: "
             /\ alert' # NoAlert /\ alert'[1] = "error"
       /\ running' => status_var' # <<"Processing...">>]_vars

\* C13: the header is written only when the log does not exist yet, every
\* save_results that returns appends exactly one row, no earlier row is ever
\* rewritten or removed: the log is the header followed by the rows of the
\* completed saves in their order.
C13_AppendOnly ==
    [][/\ disk.log_exists =>
             /\ disk'.log_exists
             /\ Len(disk'.log) >= Len(disk.log)
             /\ SubSeq(disk'.log, 1, Len(disk.log)) = disk.log
       /\ Len(disk'.log) - Len(disk.log) <= 1
       /\ Len(saves') > Len(saves) =>
             /\ Len(saves') = Len(saves) + 1
             /\ Len(disk'.log) = Len(disk.log) + 1
             /\ disk'.log[Len(disk'.log)] = saves'[Len(saves')]
       /\ disk'.log_exists => disk'.log = <<Header>> \o saves']_vars

\* a freshly restarted application finds the header and two different rows
C13_Witness ==
    /\ running
    /\ status_var = <<>>
    /\ Len(disk.log) = 3
    /\ disk.log[1] = Header
    /\ disk.log[2] # disk.log[3]

\* C15: classify_document never raises; what it returns holds either "error"
\* and no "category", or "category", "confidence" and "details" and no
\* "error"; a response that is not done, is missing or empty, or fails to
\* evaluate gives the "error" form.
C15_NeverRaises ==
    (event.handler = "classify_and_save" /\ results # NoResults) =>
        /\ \/ "error" \in DOMAIN results /\ "category" \notin DOMAIN results
           \/ /\ {"category", "confidence", "details"} \subseteq DOMAIN results
              /\ "error" \notin DOMAIN results
        /\ (\/ event.answer.done # "true"
            \/ event.answer.response \in {"missing", ""}
            \/ eval(event.answer.response).outcome \in
                  {"SyntaxError", "NameError", "SystemExit"})
           => "error" \in DOMAIN results

====
